---- MODULE Spec2Model ----
(***************************************************************************)
(* Newsletter subscription endpoint (api/subscribe.js): the request guard  *)
(* pipeline in front of the provider call, as a state machine; and the     *)
(* form handler of the page (the script with the CSRF token and            *)
(* assets/form.js), as a second state machine over the page's elements.    *)
(*                                                                         *)
(* One handler invocation is in flight at a time.  The handler is cut at   *)
(* its await points (limiter.limit, randomDelay, fetch/response.json); the *)
(* code between two awaits runs as one action.                             *)
(*                                                                         *)
(* JavaScript values are records tagged by t.  A string is a sequence of   *)
(* chunks: single characters where the code looks at characters (emails,   *)
(* tokens), whole tokens where it only compares (origins, addresses).      *)
(***************************************************************************)
EXTENDS Integers, Sequences, FiniteSets, TLC

VARIABLES
    env,        \* process.env, read by the module and by the handler
    ratelimit,  \* the module variable `ratelimit`: "null" or "limiter"
    store,      \* the limiter's log in Redis: identifier -> accepted timestamps
    now,        \* wall clock, seconds
    pc,         \* position of the handler invocation
    req,        \* the request of the invocation
    res,        \* the response object of the invocation
    limited,    \* what limiter.limit gave this invocation
    email,      \* the local `email` of the invocation
    calls,      \* requests this invocation made to the provider
    ran,        \* the stages this invocation has entered, in order
    passLog,    \* identifier -> the passages of the rate-limit stage in the
                \* window that ends now
    served,     \* invocations started so far
    errors,     \* limiter checks that failed so far
    provider,   \* what the provider call of the invocation came to
    refused     \* identifier -> it has been answered 429 since the start

\* The page: the form handler and the elements it works on.
VARIABLES
    variant,       \* which script the page runs: "part_000" or "form.js"
    cookie,        \* the csrf_token cookie of document.cookie
    csrfToken,     \* the constant csrfToken of the script
    desktopInput,  \* desktopInput.value
    mobileInput,   \* mobileInput.value
    website,       \* the value of the honeypot input
    buttons,       \* allButtons: innerText, disabled and classes of each
    message,       \* messageDiv: classes and content
    subs,          \* the invocations of the submit handler, in order
    timers,        \* the pending setTimeout callbacks
    shownBy,       \* the invocation whose message messageDiv holds
    lastHide,      \* the last hiding of a visible message: by whose timer, of whose message
    overlapped     \* a submit event has arrived while the buttons were disabled

serverVars == <<env, ratelimit, store, now, pc, req, res, limited, email, calls,
                ran, passLog, served, errors, provider, refused>>

clientVars == <<variant, cookie, csrfToken, desktopInput, mobileInput, website, buttons,
                message, subs, timers, shownBy, lastHide, overlapped>>

vars == <<serverVars, clientVars>>

----------------------------------------------------------------------------
\* Bounds of the exploration.

\* Invocations in one behaviour.
MaxRequests == 6
\* Clock ticks in one behaviour.
MaxTicks == 2
\* Seconds one clock tick advances.
TickSec == 30
\* Limiter checks that fail (Redis unreachable) in one behaviour.
MaxLimiterErrors == 1

----------------------------------------------------------------------------
\* JavaScript values.

Undefined == [t |-> "undefined"]
Null == [t |-> "null"]
Num(n) == [t |-> "number", v |-> n]
Str(s) == [t |-> "string", v |-> s]
\* An object body: its `email` and `website` members, and `extra`, the
\* serialized length of the other members it carries (separators included).
Obj(e, w, x) == [t |-> "object", email |-> e, website |-> w, extra |-> x]

\* ToBoolean.
Truthy(x) ==
    CASE x.t = "undefined" -> FALSE
      [] x.t = "null" -> FALSE
      [] x.t = "number" -> x.v # 0
      [] x.t = "string" -> x.v # <<>>
      [] OTHER -> TRUE

IsSpace(c) == c = " "

RECURSIVE TrimStart(_)
TrimStart(s) ==
    IF s # <<>> /\ IsSpace(Head(s)) THEN TrimStart(Tail(s)) ELSE s

RECURSIVE TrimEnd(_)
TrimEnd(s) ==
    IF s # <<>> /\ IsSpace(s[Len(s)]) THEN TrimEnd(SubSeq(s, 1, Len(s) - 1)) ELSE s

\* String.prototype.trim
Trim(s) == TrimEnd(TrimStart(s))

LowerChar(c) ==
    CASE c = "A" -> "a"
      [] c = "B" -> "b"
      [] c = "F" -> "f"
      [] OTHER -> c

\* String.prototype.toLowerCase
ToLowerCase(s) == [i \in 1..Len(s) |-> LowerChar(s[i])]

\* split(',')[0]: the part before the first comma.
RECURSIVE FirstField(_)
FirstField(s) ==
    IF s = <<>> \/ Head(s) = "," THEN <<>> ELSE <<Head(s)>> \o FirstField(Tail(s))

Digits(n) == IF n < 10 THEN 1 ELSE IF n < 100 THEN 2 ELSE IF n < 1000 THEN 3 ELSE 4

----------------------------------------------------------------------------
\* api/subscribe.js, module level.

\* Ratelimit.slidingWindow(5, '1 m')
RATE_LIMIT == 5
WINDOW_SEC == 60

MAX_BODY_SIZE == 1024
MAX_EMAIL_LENGTH == 254
MIN_TOKEN_LENGTH == 32

ProductionOrigins ==
    << <<"https://bluebeaconshow.com">>,
       <<"https://www.bluebeaconshow.com">>,
       <<"https://bluebeaconshow.vercel.app">> >>

LocalOrigins ==
    << <<"http://localhost:3000">>,
       <<"http://localhost:5173">>,
       <<"http://127.0.0.1:3000">> >>

\* ALLOWED_ORIGINS with the localhost origins pushed whatever NODE_ENV is.
ALLOWED_ORIGINS_AlwaysLocal(e) == ProductionOrigins \o LocalOrigins

\* The array ALLOWED_ORIGINS after the module has loaded under environment e.
ALLOWED_ORIGINS(e) ==
    IF e.NODE_ENV # "production" THEN ProductionOrigins \o LocalOrigins
    ELSE ProductionOrigins

\* Array.prototype.includes
Includes(arr, x) == \E i \in 1..Len(arr) : arr[i] = x

\* getRatelimiter(): the value it returns and leaves in `ratelimit`.
getRatelimiter(rl, e) ==
    IF rl # "null" THEN rl
    ELSE IF e.UPSTASH_REDIS_REST_URL /\ e.UPSTASH_REDIS_REST_TOKEN THEN "limiter"
    ELSE "null"

\* getClientIP(req)
getClientIP(r) ==
    IF Truthy(r.realIp) THEN r.realIp.v
    ELSE IF r.forwardedFor.t = "string" /\ Trim(FirstField(r.forwardedFor.v)) # <<>>
         THEN Trim(FirstField(r.forwardedFor.v))
    ELSE <<"unknown">>

\* validateCSRF without the minimum token length of line 49.
validateCSRF_NoLength(r) ==
    IF ~Truthy(r.cookie) \/ ~Truthy(r.csrfHeader) THEN FALSE
    ELSE IF r.cookie # r.csrfHeader THEN FALSE
    ELSE TRUE

\* validateCSRF(req)
validateCSRF(r) ==
    IF ~Truthy(r.cookie) \/ ~Truthy(r.csrfHeader) THEN FALSE
    ELSE IF r.cookie # r.csrfHeader THEN FALSE
    ELSE IF Len(r.cookie.v) < MIN_TOKEN_LENGTH THEN FALSE
    ELSE TRUE

\* JSON.stringify(v).length for a member value; 0 stands for "member omitted".
MemberLength(key, v) ==
    CASE v.t = "undefined" -> 0
      [] v.t = "null" -> Len(key) + 3 + 4
      [] v.t = "number" -> Len(key) + 3 + Digits(v.v)
      [] OTHER -> Len(key) + 3 + Len(v.v) + 2

\* JSON.stringify(undefined) is undefined: reading its .length throws.
StringifyLengthThrows(b) == b.t = "undefined"

\* JSON.stringify(body).length
StringifyLength(b) ==
    CASE b.t = "undefined" -> 0
      [] b.t = "null" -> 4
      [] b.t = "number" -> Digits(b.v)
      [] b.t = "string" -> Len(b.v) + 2
      [] OTHER ->
            LET e == MemberLength(<<"e","m","a","i","l">>, b.email)
                w == MemberLength(<<"w","e","b","s","i","t","e">>, b.website)
            IN  2 + e + w + (IF e > 0 /\ w > 0 THEN 1 ELSE 0) + b.extra

\* isBodyTooLarge(body)
isBodyTooLarge(b) ==
    IF StringifyLengthThrows(b) THEN TRUE
    ELSE StringifyLength(b) > MAX_BODY_SIZE

\* /^[^\s@]+@[^\s@]+\.[^\s@]+$/.test(s)
EmailRegexTest(s) ==
    /\ \A i \in 1..Len(s) : ~IsSpace(s[i])
    /\ \E a \in 2..Len(s) :
          /\ s[a] = "@"
          /\ \A i \in 1..Len(s) : s[i] = "@" => i = a
          /\ \E d \in (a + 2)..(Len(s) - 1) : s[d] = "."

\* isValidEmail(email)
isValidEmail(e) ==
    IF e.t # "string" THEN FALSE
    ELSE IF Len(e.v) > MAX_EMAIL_LENGTH THEN FALSE
    ELSE EmailRegexTest(e.v)

\* The extraction of line 146 without toLowerCase().
ExtractEmail_NoLower(b) ==
    IF b.t # "object" THEN [throws |-> FALSE, value |-> Undefined]
    ELSE IF b.email.t \in {"undefined", "null"} THEN [throws |-> FALSE, value |-> Undefined]
    ELSE IF b.email.t = "string"
         THEN [throws |-> FALSE, value |-> Str(Trim(b.email.v))]
    ELSE [throws |-> TRUE, value |-> Undefined]

\* body?.email?.trim()?.toLowerCase(): the value, or "throws" when .trim is
\* not a function of the member (a TypeError the handler does not catch).
ExtractEmail(b) ==
    IF b.t # "object" THEN [throws |-> FALSE, value |-> Undefined]
    ELSE IF b.email.t \in {"undefined", "null"} THEN [throws |-> FALSE, value |-> Undefined]
    ELSE IF b.email.t = "string"
         THEN [throws |-> FALSE, value |-> Str(ToLowerCase(Trim(b.email.v)))]
    ELSE [throws |-> TRUE, value |-> Undefined]

\* The honeypot read from a member the form does not send.
Website_WrongMember(b) == Undefined

\* body?.website
Website(b) == IF b.t = "object" THEN b.website ELSE Undefined

----------------------------------------------------------------------------
\* The handler: responses.

\* A request body that arrives as text: the text either is malformed JSON or
\* is the JSON text of a value.
JsonText(v) == [t |-> "string", json |-> [ok |-> TRUE, value |-> v]]
BadJsonText == [t |-> "string", json |-> [ok |-> FALSE, value |-> Undefined]]

\* JSON.parse(body)
JSONParse(b) == [throws |-> ~b.json.ok, value |-> b.json.value]

SuccessBody == [success |-> TRUE, message |-> "Subscribed successfully"]
ErrorBody(m) == [error |-> m]
\* res.end(): no body.
EmptyBody == [empty |-> TRUE]

MethodNotAllowed == ErrorBody("Method not allowed")
InvalidRequest == ErrorBody("Invalid request. Please refresh the page and try again.")
TooManyRequests == ErrorBody("Too many requests. Please try again later.")
InvalidFormat == ErrorBody("Invalid request format")
TooLarge == ErrorBody("Request too large")
EmailRequired == ErrorBody("Email is required")
EmailInvalid == ErrorBody("Please provide a valid email address")
Unavailable == ErrorBody("Service temporarily unavailable")
SubscriptionFailed == ErrorBody("Subscription failed. Please try again.")

\* res.setHeader(name, value)
SetHeader(h, name, value) ==
    [k \in DOMAIN h \cup {name} |-> IF k = name THEN value ELSE h[k]]

NoHeaders == [k \in {} |-> <<>>]

\* The response object before the handler touches it.
FreshResponse == [sent |-> 0, status |-> 200, body |-> EmptyBody, headers |-> NoHeaders]

\* res.status(code).json(body) and res.status(code).end()
Send(r, code, body) ==
    [r EXCEPT !.sent = @ + 1, !.status = code, !.body = body]

\* Lines 86-94: the CORS headers.
CorsHeaders(r, e) ==
    LET h0 == IF Truthy(r.origin) /\ Includes(ALLOWED_ORIGINS(e), r.origin.v)
              THEN SetHeader(SetHeader(NoHeaders, "Access-Control-Allow-Origin", r.origin.v),
                             "Access-Control-Allow-Credentials", <<"true">>)
              ELSE NoHeaders
        h1 == SetHeader(h0, "Access-Control-Allow-Methods", <<"POST, OPTIONS">>)
        h2 == SetHeader(h1, "Access-Control-Allow-Headers", <<"Content-Type, X-CSRF-Token">>)
    IN  SetHeader(h2, "Access-Control-Max-Age", <<"86400">>)

\* Lines 96-111 with the method check ahead of the preflight check.
Prelude_MethodFirst(r, e) ==
    IF r.method # "POST"
    THEN [next |-> "respond", status |-> 405, body |-> MethodNotAllowed,
          ran |-> <<"preflight", "method">>]
    ELSE IF e.NODE_ENV = "production" /\ ~validateCSRF(r)
    THEN [next |-> "respond", status |-> 403, body |-> InvalidRequest,
          ran |-> <<"preflight", "method", "csrf">>]
    ELSE [next |-> "limit", status |-> 200, body |-> EmptyBody,
          ran |-> IF e.NODE_ENV = "production"
                  THEN <<"preflight", "method", "csrf", "ratelimit">>
                  ELSE <<"preflight", "method", "ratelimit">>]

\* Lines 96-111: preflight, method and CSRF.  next = "respond" with the
\* response, or "limit" when the handler goes on to the rate-limit stage.
Prelude(r, e) ==
    IF r.method = "OPTIONS"
    THEN [next |-> "respond", status |-> 200, body |-> EmptyBody,
          ran |-> <<"preflight">>]
    ELSE IF r.method # "POST"
    THEN [next |-> "respond", status |-> 405, body |-> MethodNotAllowed,
          ran |-> <<"preflight", "method">>]
    ELSE IF e.NODE_ENV = "production" /\ ~validateCSRF(r)
    THEN [next |-> "respond", status |-> 403, body |-> InvalidRequest,
          ran |-> <<"preflight", "method", "csrf">>]
    ELSE [next |-> "limit", status |-> 200, body |-> EmptyBody,
          ran |-> IF e.NODE_ENV = "production"
                  THEN <<"preflight", "method", "csrf", "ratelimit">>
                  ELSE <<"preflight", "method", "ratelimit">>]

\* The configuration check without the form identifier.
Configured_KeyOnly(e) == e.CONVERTKIT_API_KEY

\* Lines 168-175: the provider configuration is complete.
Configured(e) == e.CONVERTKIT_API_KEY /\ e.CONVERTKIT_FORM_ID

\* The honeypot branch answering with a message of its own.
HoneypotResponse_OwnMessage ==
    [status |-> 200, body |-> [success |-> TRUE, message |-> "Thank you"]]

\* Lines 162-165: what the honeypot branch answers.
HoneypotResponse == [status |-> 200, body |-> SuccessBody]

\* Lines 131-190: from body parsing to the provider call.  next = "respond",
\* "throw" (an uncaught TypeError ends the invocation), "delay" (the honeypot
\* branch awaits randomDelay) or "fetch" (the provider call is issued).
Pipeline(r, e) ==
    LET parsed == IF r.body.t = "string"
                  THEN JSONParse(r.body)
                  ELSE [throws |-> FALSE, value |-> r.body]
        body == parsed.value
        em == ExtractEmail(body)
    IN  IF parsed.throws
        THEN [next |-> "respond", status |-> 400, body |-> InvalidFormat,
              ran |-> <<"parse">>, email |-> Undefined]
        ELSE IF isBodyTooLarge(body)
        THEN [next |-> "respond", status |-> 413, body |-> TooLarge,
              ran |-> <<"parse", "size">>, email |-> Undefined]
        ELSE IF em.throws
        THEN [next |-> "throw", status |-> 200, body |-> EmptyBody,
              ran |-> <<"parse", "size", "presence">>, email |-> Undefined]
        ELSE IF ~Truthy(em.value)
        THEN [next |-> "respond", status |-> 400, body |-> EmailRequired,
              ran |-> <<"parse", "size", "presence">>, email |-> em.value]
        ELSE IF ~isValidEmail(em.value)
        THEN [next |-> "respond", status |-> 400, body |-> EmailInvalid,
              ran |-> <<"parse", "size", "presence", "validity">>, email |-> em.value]
        ELSE IF Truthy(Website(body))
        THEN [next |-> "delay", status |-> HoneypotResponse.status,
              body |-> HoneypotResponse.body,
              ran |-> <<"parse", "size", "presence", "validity", "honeypot">>,
              email |-> em.value]
        ELSE IF ~Configured(e)
        THEN [next |-> "respond", status |-> 500, body |-> Unavailable,
              ran |-> <<"parse", "size", "presence", "validity", "honeypot", "config">>,
              email |-> em.value]
        ELSE [next |-> "fetch", status |-> 200, body |-> EmptyBody,
              ran |-> <<"parse", "size", "presence", "validity", "honeypot", "config",
                        "downstream">>,
              email |-> em.value]

\* Lines 192-209 with the provider's own text passed on in the failure answer.
Translate_Echo(o) ==
    IF o.fetch = "rejects" \/ o.json = "rejects"
    THEN [status |-> 500, body |-> Unavailable]
    ELSE IF o.ok /\ o.data.t = "null"
    THEN [status |-> 500, body |-> Unavailable]
    ELSE IF o.ok /\ Truthy(o.data.subscription)
    THEN [status |-> 200, body |-> SuccessBody]
    ELSE IF o.data.t = "object"
    THEN [status |-> 400, body |-> ErrorBody(o.data.detail)]
    ELSE [status |-> 400, body |-> SubscriptionFailed]

\* Lines 192-209: the provider's outcome turned into the response.
\* o.fetch = "rejects": the call failed; o.json = "rejects": the body is not
\* JSON; else o.data is the decoded body.
Translate(o) ==
    IF o.fetch = "rejects" \/ o.json = "rejects"
    THEN [status |-> 500, body |-> Unavailable]
    ELSE IF o.ok /\ o.data.t = "null"
    THEN [status |-> 500, body |-> Unavailable]
    ELSE IF o.ok /\ Truthy(o.data.subscription)
    THEN [status |-> 200, body |-> SuccessBody]
    ELSE [status |-> 400, body |-> SubscriptionFailed]

----------------------------------------------------------------------------
\* The rate limiter: Ratelimit.slidingWindow(5, '1 m') over the Redis log.

\* The timestamps of a log that lie in the window ending at t.
Recent(log, t) == SelectSeq(log, LAMBDA x : x > t - WINDOW_SEC)

\* limiter.limit(id) at time t: { success, remaining }.
LimitResult(st, id, t) ==
    LET n == Len(Recent(st[id], t))
    IN  [success |-> n < RATE_LIMIT,
         remaining |-> IF n < RATE_LIMIT THEN RATE_LIMIT - n - 1 ELSE 0]

\* The log after limiter.limit(id) at time t: an accepted request is logged,
\* entries outside the window have aged out.
LimitStore(st, id, t) ==
    LET recent == Recent(st[id], t)
    IN  [st EXCEPT ![id] = IF Len(recent) < RATE_LIMIT THEN Append(recent, t) ELSE recent]

----------------------------------------------------------------------------
\* The requests and environments explored.

Token(c, n) == [i \in 1..n |-> c]

Methods == {"OPTIONS", "GET", "POST"}

Origins ==
    {Undefined, Str(<<"https://bluebeaconshow.com">>), Str(<<"http://localhost:3000">>),
     Str(<<"https://evil.example">>)}

Cookies ==
    {Undefined, Str(<<>>), Str(Token("a", MIN_TOKEN_LENGTH - 1)), Str(Token("a", MIN_TOKEN_LENGTH))}

CsrfHeaders ==
    Cookies \cup {Str(Token("b", MIN_TOKEN_LENGTH))}

RealIps == {Undefined, Str(<<"203.0.113.1">>)}

ForwardedFors == {Undefined, Str(<<" ", "198.51.100.2", ",", " ", "10.0.0.3">>)}

\* A well-formed address one character over the length cap.
LongEmail ==
    [i \in 1..(MAX_EMAIL_LENGTH + 1) |-> IF i = 2 THEN "@" ELSE IF i = 4 THEN "." ELSE "a"]

Emails ==
    {Undefined, Null, Num(123), Str(<<>>), Str(<<" ", " ">>),
     Str(<<" ", "F", "@", "B", ".", "c", " ">>), Str(<<"f", "@", "b", ".", "c">>),
     Str(<<"a", " ", "b", "@", "b", ".", "c">>),
     Str(<<"a", "@", "b">>), Str(LongEmail)}

Websites == {Undefined, Str(<<>>), Str(<<"h", "t", "t", "p">>)}

GoodEmail == Str(<<"f", "@", "b", ".", "c">>)
Honeypot == Str(<<"h", "t", "t", "p">>)
\* A honeypot value that alone takes the body over the size limit.
LongHoneypot == Str(Token("h", MAX_BODY_SIZE))

\* Bodies that other members bring to exactly the size limit and to one
\* character over it: {"email":"f@b.c"} serializes to 17 characters.
AtSizeLimit == Obj(GoodEmail, Undefined, MAX_BODY_SIZE - 17)
OverSizeLimit == Obj(GoodEmail, Undefined, MAX_BODY_SIZE - 16)

\* Object bodies of ordinary size, and bodies made too large by other members.
ObjectBodies ==
    {Obj(e, w, 0) : e \in Emails, w \in {Undefined, Honeypot}}
    \cup {Obj(GoodEmail, Str(<<>>), 0), Obj(GoodEmail, LongHoneypot, 0)}
    \cup {AtSizeLimit, OverSizeLimit}
    \cup {Obj(e, w, MAX_BODY_SIZE) : e \in {Undefined, Num(123), GoodEmail},
                                      w \in {Undefined, Honeypot}}

Bodies ==
    {Undefined, Null, BadJsonText, JsonText(Num(7)), JsonText(Obj(GoodEmail, Undefined, 0))}
    \cup ObjectBodies

\* Every combination of headers, with a few bodies.
HeaderRequests ==
    [method : Methods, origin : Origins, cookie : Cookies, csrfHeader : CsrfHeaders,
     realIp : RealIps, forwardedFor : ForwardedFors,
     body : {Undefined, BadJsonText, Obj(Num(123), Honeypot, 0), Obj(GoodEmail, Undefined, 0),
             Obj(GoodEmail, Honeypot, 0)}]

\* Every body, with a few combinations of headers.
BodyRequests ==
    [method : {"GET", "POST"}, origin : {Str(<<"https://bluebeaconshow.com">>)},
     cookie : {Str(Token("a", MIN_TOKEN_LENGTH))},
     csrfHeader : {Str(Token("a", MIN_TOKEN_LENGTH)), Str(Token("b", MIN_TOKEN_LENGTH))},
     realIp : RealIps, forwardedFor : {Undefined},
     body : Bodies]

Requests == HeaderRequests \cup BodyRequests

\* The requests of a legitimate client that keeps submitting.
BurstRequests ==
    [method : {"POST"}, origin : {Str(<<"https://bluebeaconshow.com">>)},
     cookie : {Str(Token("a", MIN_TOKEN_LENGTH))},
     csrfHeader : {Str(Token("a", MIN_TOKEN_LENGTH))},
     realIp : {Undefined}, forwardedFor : {Undefined},
     body : {Obj(GoodEmail, Undefined, 0)}]

ClientIds == {getClientIP(r) : r \in Requests}

\* The environments: each variable set or not, the limiter's pair or the
\* provider's pair being complete.
Envs ==
    {e \in [NODE_ENV : {"production", "development"},
            UPSTASH_REDIS_REST_URL : BOOLEAN, UPSTASH_REDIS_REST_TOKEN : BOOLEAN,
            CONVERTKIT_API_KEY : BOOLEAN, CONVERTKIT_FORM_ID : BOOLEAN] :
        \/ e.UPSTASH_REDIS_REST_URL /\ e.UPSTASH_REDIS_REST_TOKEN
        \/ e.CONVERTKIT_API_KEY /\ e.CONVERTKIT_FORM_ID}

\* What the provider call can come to; `detail` is the provider's own text.
ProviderData ==
    {Null,
     [t |-> "object", subscription |-> [t |-> "object"], detail |-> "subscriber-id-77"],
     [t |-> "object", subscription |-> Undefined, detail |-> "provider-error-detail"]}

ProviderOutcomes ==
    {[fetch |-> "rejects", ok |-> FALSE, json |-> "rejects", data |-> Null]}
    \cup {[fetch |-> "resolves", ok |-> k, json |-> "rejects", data |-> Null] : k \in BOOLEAN}
    \cup {[fetch |-> "resolves", ok |-> k, json |-> "resolves", data |-> d] :
             k \in BOOLEAN, d \in ProviderData}

NoRequest == [method |-> "none"]
NoLimit == [kind |-> "none"]
NoOutcome == [fetch |-> "none"]

EmptyStore == [id \in ClientIds |-> <<>>]
\* The log a burst of accepted requests at time 0 leaves for every identifier.
SaturatedStore == [id \in ClientIds |-> [i \in 1..RATE_LIMIT |-> 0]]

----------------------------------------------------------------------------
\* The state machine.

\* The log is in Redis and outlives the process: a starting process finds it
\* empty or as earlier invocations left it.
ServerInit ==
    /\ env \in Envs
    /\ ratelimit = "null"
    /\ store \in {EmptyStore}
                 \cup (IF env.UPSTASH_REDIS_REST_URL /\ env.UPSTASH_REDIS_REST_TOKEN
                       THEN {SaturatedStore} ELSE {})
    /\ now = 0
    /\ pc = "idle"
    /\ req = NoRequest
    /\ res = FreshResponse
    /\ limited = NoLimit
    /\ email = Undefined
    /\ calls = <<>>
    /\ ran = <<>>
    /\ passLog = [id \in ClientIds |-> <<>>]
    /\ served = 0
    /\ errors = 0
    /\ provider = NoOutcome
    /\ refused = [id \in ClientIds |-> FALSE]

\* No page is open.
NoPage ==
    /\ variant = "none"
    /\ cookie = Undefined
    /\ csrfToken = Undefined
    /\ desktopInput = <<>>
    /\ mobileInput = <<>>
    /\ website = <<>>
    /\ buttons = <<>>
    /\ message = [hidden |-> TRUE]
    /\ subs = <<>>
    /\ timers = {}
    /\ shownBy = 0
    /\ lastHide = [by |-> 0, of |-> 0]
    /\ overlapped = FALSE

Init == ServerInit /\ NoPage

\* The provider call of lines 178-190: the form in the URL, the body sent.
ProviderCall(e, em) ==
    [form |-> e.CONVERTKIT_FORM_ID, api_key |-> e.CONVERTKIT_API_KEY, email |-> em]

\* Lines 131-190 of the invocation of request r, with response object r0 and
\* the stages ran0 behind it.
RunPipeline(r, r0, ran0) ==
    LET p == Pipeline(r, env)
    IN  /\ ran' = ran0 \o p.ran
        /\ email' = p.email
        /\ res' = IF p.next = "respond" THEN Send(r0, p.status, p.body) ELSE r0
        /\ pc' = CASE p.next = "respond" -> "done"
                   [] p.next = "throw" -> "crashed"
                   [] p.next = "delay" -> "delay"
                   [] OTHER -> "fetch"
        /\ calls' = IF p.next = "fetch" THEN Append(calls, ProviderCall(env, p.email))
                    ELSE calls

\* The log of passages with one more, of identifier id at the current time.
Pass(id, how) == [passLog EXCEPT ![id] = Append(@, [at |-> now, how |-> how])]

\* The requests that can arrive in the current state.
Arrivals ==
    IF pc # "idle" \/ served >= MaxRequests THEN {}
    ELSE IF served = 0 THEN Requests
    ELSE BurstRequests

\* A request arrives: lines 85-119, and on to line 190 when no limiter is
\* configured.  The first request of a behaviour is any request; the ones
\* after it are a client's repeated submissions.
Receive(r) ==
    /\ r \in Arrivals
    /\ served' = served + 1
    /\ req' = r
    /\ provider' = NoOutcome
    /\ LET r0 == [FreshResponse EXCEPT !.headers = CorsHeaders(r, env)]
           p == Prelude(r, env)
           limiter == getRatelimiter(ratelimit, env)
       IN  IF p.next = "respond"
           THEN /\ res' = Send(r0, p.status, p.body)
                /\ pc' = "done"
                /\ ran' = p.ran
                /\ UNCHANGED <<ratelimit, limited, email, calls, passLog>>
           ELSE /\ ratelimit' = limiter
                /\ IF limiter # "null"
                   THEN /\ pc' = "limit"
                        /\ res' = r0
                        /\ ran' = p.ran
                        /\ UNCHANGED <<limited, email, calls, passLog>>
                   ELSE /\ limited' = [kind |-> "unconfigured"]
                        /\ passLog' = Pass(getClientIP(r), "unconfigured")
                        /\ RunPipeline(r, r0, p.ran)
    /\ UNCHANGED <<env, store, now, errors, refused>>
    /\ UNCHANGED clientVars

\* The limiter's answer left unread.
LimitRejects_Never(lr) == FALSE

\* The limiter's answer read the wrong way round.
LimitRejects_Inverted(lr) == lr.success

\* Line 122: the limiter's answer stops the request.
LimitRejects(lr) == ~lr.success

\* limiter.limit(clientIP) returns: lines 119-124, then on to line 190.
LimitReturns ==
    /\ pc = "limit"
    /\ LET id == getClientIP(req)
           lr == LimitResult(store, id, now)
           r1 == [res EXCEPT !.headers = SetHeader(@, "X-RateLimit-Remaining", <<lr.remaining>>)]
       IN  /\ store' = LimitStore(store, id, now)
           /\ limited' = [kind |-> "result", success |-> lr.success, remaining |-> lr.remaining]
           /\ IF LimitRejects(lr)
              THEN /\ res' = Send(r1, 429, TooManyRequests)
                   /\ pc' = "done"
                   /\ refused' = [refused EXCEPT ![id] = TRUE]
                   /\ UNCHANGED <<email, calls, ran, passLog>>
              ELSE /\ passLog' = Pass(id, "allowed")
                   /\ RunPipeline(req, r1, ran)
                   /\ UNCHANGED refused
    /\ UNCHANGED <<env, ratelimit, now, req, served, errors, provider>>
    /\ UNCHANGED clientVars

\* The catch of the limiter's error answering 429.
CatchLimitError_Reject == [next |-> "respond", status |-> 429, body |-> TooManyRequests]

\* Lines 125-128: the catch of the limiter's error logs it and lets the
\* handler go on.
CatchLimitError == [next |-> "continue", status |-> 200, body |-> EmptyBody]

\* limiter.limit(clientIP) throws (Redis unreachable, before or after the
\* log was written): lines 125-128, then on to line 190.
LimitThrows ==
    /\ pc = "limit"
    /\ errors < MaxLimiterErrors
    /\ errors' = errors + 1
    /\ store' \in {store, LimitStore(store, getClientIP(req), now)}
    /\ limited' = [kind |-> "error"]
    /\ IF CatchLimitError.next = "continue"
       THEN /\ passLog' = Pass(getClientIP(req), "error")
            /\ RunPipeline(req, res, ran)
       ELSE /\ res' = Send(res, CatchLimitError.status, CatchLimitError.body)
            /\ pc' = "done"
            /\ UNCHANGED <<email, calls, ran, passLog>>
    /\ UNCHANGED <<env, ratelimit, now, req, served, provider, refused>>
    /\ UNCHANGED clientVars

\* randomDelay(200, 600) resolves: lines 161-165.
DelayDone ==
    /\ pc = "delay"
    /\ res' = Send(res, HoneypotResponse.status, HoneypotResponse.body)
    /\ pc' = "done"
    /\ UNCHANGED <<env, ratelimit, store, now, req, limited, email, calls, ran, passLog,
                   served, errors, provider, refused>>
    /\ UNCHANGED clientVars

\* fetch and response.json() settle: lines 192-209.
FetchSettles(o) ==
    /\ pc = "fetch"
    /\ provider' = o
    /\ res' = Send(res, Translate(o).status, Translate(o).body)
    /\ pc' = "done"
    /\ UNCHANGED <<env, ratelimit, store, now, req, limited, email, calls, ran, passLog,
                   served, errors, refused>>
    /\ UNCHANGED clientVars

\* The invocation is over: its request and response objects are dropped.
Close ==
    /\ pc \in {"done", "crashed"}
    /\ pc' = "idle"
    /\ req' = NoRequest
    /\ res' = FreshResponse
    /\ limited' = NoLimit
    /\ email' = Undefined
    /\ calls' = <<>>
    /\ ran' = <<>>
    /\ provider' = NoOutcome
    /\ UNCHANGED <<env, ratelimit, store, now, passLog, served, errors, refused>>
    /\ UNCHANGED clientVars

\* Time passes between invocations; the clock starts at the first request.
\* What has left the window ages out of the log.
Tick ==
    /\ pc = "idle"
    /\ served > 0
    /\ now < MaxTicks * TickSec
    /\ now' = now + TickSec
    /\ store' = [id \in ClientIds |-> Recent(store[id], now')]
    /\ passLog' = [id \in ClientIds |->
                      SelectSeq(passLog[id], LAMBDA p : p.at > now' - WINDOW_SEC)]
    /\ UNCHANGED <<env, ratelimit, pc, req, res, limited, email, calls, ran,
                   served, errors, provider, refused>>
    /\ UNCHANGED clientVars

Next ==
    \/ \E r \in Arrivals : Receive(r)
    \/ LimitReturns
    \/ LimitThrows
    \/ DelayDone
    \/ \E o \in ProviderOutcomes : FetchSettles(o)
    \/ Close
    \/ Tick

Spec == Init /\ [][Next]_vars

----------------------------------------------------------------------------
\* What the claims speak of, stated on the request as the caller sent it.

Started == pc # "idle"
Finished == pc \in {"done", "crashed"}
Production == env.NODE_ENV = "production"

\* The body as a value, whether it came as an object or as JSON text.
SentBody(r) == IF r.body.t = "string" THEN r.body.json.value ELSE r.body
BodyMalformed(r) == r.body.t = "string" /\ ~r.body.json.ok

\* The `email` and `website` members the caller sent.
SentEmail(r) == IF SentBody(r).t = "object" THEN SentBody(r).email ELSE Undefined
SentWebsite(r) == IF SentBody(r).t = "object" THEN SentBody(r).website ELSE Undefined

\* The email is missing: absent, null, empty, or empty once trimmed.
EmailMissing(r) ==
    \/ SentEmail(r).t \in {"undefined", "null"}
    \/ SentEmail(r).t = "string" /\ Trim(SentEmail(r).v) = <<>>

\* The email is there and is a well-formed address of at most 254 characters.
EmailWellFormed(r) ==
    /\ SentEmail(r).t = "string"
    /\ Len(Trim(SentEmail(r).v)) <= MAX_EMAIL_LENGTH
    /\ EmailRegexTest(Trim(SentEmail(r).v))

HasHoneypot(r) == SentWebsite(r).t = "string" /\ SentWebsite(r).v # <<>>

\* The cookie/header pair the CSRF stage is to reject: one of the two is
\* missing or empty, they differ, or the token is shorter than 32.
TokenPairRejected(r) ==
    \/ r.cookie.t = "undefined"
    \/ r.csrfHeader.t = "undefined"
    \/ r.cookie.v = <<>>
    \/ r.csrfHeader.v = <<>>
    \/ r.cookie.v # r.csrfHeader.v
    \/ Len(r.cookie.v) < 32

RateLimited == limited.kind = "result" /\ ~limited.success
ConfigMissing == ~env.CONVERTKIT_API_KEY \/ ~env.CONVERTKIT_FORM_ID

Answer(code, body) == [status |-> code, body |-> body]

\* The response of the earliest stage the current request fails, the stages
\* taken in the order preflight, method, CSRF, rate limit, body parsing,
\* size, email presence, email validity, honeypot, configuration, downstream.
EarliestStage ==
    CASE req.method = "OPTIONS" -> "preflight"
      [] req.method # "POST" -> "method"
      [] Production /\ TokenPairRejected(req) -> "csrf"
      [] RateLimited -> "ratelimit"
      [] BodyMalformed(req) -> "parse"
      [] isBodyTooLarge(SentBody(req)) -> "size"
      [] EmailMissing(req) -> "presence"
      [] ~EmailWellFormed(req) -> "validity"
      [] HasHoneypot(req) -> "honeypot"
      [] ConfigMissing -> "config"
      [] OTHER -> "downstream"

StageAnswer(stage) ==
    CASE stage = "preflight" -> Answer(200, EmptyBody)
      [] stage = "method" -> Answer(405, MethodNotAllowed)
      [] stage = "csrf" -> Answer(403, InvalidRequest)
      [] stage = "ratelimit" -> Answer(429, TooManyRequests)
      [] stage = "parse" -> Answer(400, InvalidFormat)
      [] stage = "size" -> Answer(413, TooLarge)
      [] stage = "presence" -> Answer(400, EmailRequired)
      [] stage = "validity" -> Answer(400, EmailInvalid)
      [] stage = "honeypot" -> Answer(200, SuccessBody)
      [] stage = "config" -> Answer(500, Unavailable)
      [] OTHER -> Translate(provider)

\* The request is answered by its earliest failing stage, and the stages
\* after that one have had no effect.
AnsweredByEarliestStage ==
    /\ pc = "done"
    /\ res.sent = 1
    /\ Answer(res.status, res.body) = StageAnswer(EarliestStage)
    /\ EarliestStage \in {"preflight", "method", "csrf"} => limited = NoLimit
    /\ EarliestStage # "downstream" => calls = <<>>

----------------------------------------------------------------------------
\* C1. Stage order: every request is answered by the earliest stage it
\* fails (preflight, method, CSRF, rate limit, body parsing, size, email
\* presence, email validity, honeypot, configuration, downstream), and a
\* stage that has answered leaves the later stages without effect: no quota
\* consumed, no provider call.  Fails on the code: a request whose email is
\* not a string ends in an uncaught TypeError at line 146 and is answered by
\* no stage.
C1_StageOrder == Finished => AnsweredByEarliestStage

\* C1, the part the code keeps: whenever the handler does answer, the answer
\* is that of the earliest failing stage.
C1_StageOrderWhenAnswered == pc = "done" => AnsweredByEarliestStage

\* C1, the requests answered by an early stage although later stages fail
\* too: a GET with a malformed body in production without a token.
C1_Witness ==
    /\ pc = "done"
    /\ req.method = "GET"
    /\ Production
    /\ TokenPairRejected(req)
    /\ BodyMalformed(req)
    /\ res.status = 405

----------------------------------------------------------------------------
\* C2. In production a POST is answered 403, with one message whatever the
\* cause, exactly when the cookie or the header is missing or empty, the two
\* differ, or the token is shorter than 32 characters, and every other pair
\* goes on to the rate-limit stage; outside production no request is
\* answered 403.
C2_CsrfStage ==
    (Started /\ req.method = "POST") =>
        IF Production /\ TokenPairRejected(req)
        THEN /\ pc = "done"
             /\ res.sent = 1
             /\ Answer(res.status, res.body) = Answer(403, InvalidRequest)
             /\ limited = NoLimit
        ELSE /\ res.status # 403
             /\ \E i \in 1..Len(ran) : ran[i] = "ratelimit"

\* C2: a production POST whose cookie and header agree on a token of 31
\* characters has been answered 403.
C2_Witness ==
    /\ pc = "done"
    /\ Production
    /\ req.method = "POST"
    /\ req.cookie.t = "string"
    /\ req.cookie = req.csrfHeader
    /\ Len(req.cookie.v) = 31
    /\ res.status = 403

----------------------------------------------------------------------------
\* The passages of identifier id in the window that ends now.
Passes(id) == Len(passLog[id])
\* Those among them the limiter checked and allowed.
AllowedPasses(id) ==
    Cardinality({i \in 1..Len(passLog[id]) : passLog[id][i].how = "allowed"})

\* C3 as claimed: for every identifier, at most 5 requests pass the
\* rate-limit stage within any 60-second window.  Fails on the code: with no
\* limiter configured, or when the check throws, the request passes.
C3_AtMostFivePass == \A id \in ClientIds : Passes(id) <= 5

\* C3 amended: with the limiter configured, at most 5 requests of one
\* identifier whose check completes pass the rate-limit stage within any
\* 60-second window, and a request whose check completes after 5 such
\* passages in the window is answered 429 and goes no further.
C3_AtMostFiveChecked ==
    /\ \A id \in ClientIds : AllowedPasses(id) <= 5
    /\ (limited.kind = "result"
        /\ AllowedPasses(getClientIP(req)) - (IF res.status = 429 THEN 0 ELSE 1) >= 5)
       => /\ pc = "done"
          /\ res.sent = 1
          /\ Answer(res.status, res.body) = Answer(429, TooManyRequests)
          /\ ran[Len(ran)] = "ratelimit"
          /\ email = Undefined
          /\ calls = <<>>

\* C3: a request has been answered 429 after 5 checked passages of its
\* identifier in the window, all of this behaviour.
C3_Witness ==
    /\ pc = "done"
    /\ res.status = 429
    /\ AllowedPasses(getClientIP(req)) = 5

----------------------------------------------------------------------------
\* Request r passes every stage before the honeypot stage, the limiter
\* answering as it did for the current request.
PassesGuards(r) ==
    /\ r.method = "POST"
    /\ ~(Production /\ TokenPairRejected(r))
    /\ ~RateLimited
    /\ ~BodyMalformed(r)
    /\ SentBody(r).t = "object"
    /\ StringifyLength(SentBody(r)) <= MAX_BODY_SIZE
    /\ EmailWellFormed(r)

ReachesHoneypotStage == PassesGuards(req)

\* C4 as claimed: a request with a non-empty honeypot field always receives
\* the success shape and never causes a provider call.  Fails on the code: a
\* stage before the honeypot stage answers first.
C4_HoneypotAlwaysSuccess ==
    (Finished /\ HasHoneypot(req)) =>
        /\ Answer(res.status, res.body) = Answer(200, SuccessBody)
        /\ calls = <<>>

\* C4 amended: a request with a non-empty honeypot field that passes the
\* stages before the honeypot stage receives the success shape, and no
\* request with a non-empty honeypot field causes a provider call.
C4_HoneypotSuccess ==
    (Started /\ HasHoneypot(req)) =>
        /\ calls = <<>>
        /\ pc # "fetch"
        /\ (Finished /\ ReachesHoneypotStage) =>
              /\ pc = "done"
              /\ res.sent = 1
              /\ Answer(res.status, res.body) = Answer(200, SuccessBody)

\* C4: a honeypot request has been answered with the success shape where the
\* provider is configured and would have been called.
C4_Witness ==
    /\ pc = "done"
    /\ HasHoneypot(req)
    /\ ReachesHoneypotStage
    /\ ~ConfigMissing
    /\ res.status = 200
    /\ calls = <<>>

----------------------------------------------------------------------------
\* The current request without its honeypot field.
WithoutHoneypot(r) ==
    IF r.body.t = "string"
    THEN [r EXCEPT !.body = JsonText([r.body.json.value EXCEPT !.website = Undefined])]
    ELSE [r EXCEPT !.body.website = Undefined]

\* The provider accepts: the call resolves OK with a subscription.
Accepted(o) ==
    /\ o.fetch = "resolves"
    /\ o.json = "resolves"
    /\ o.ok
    /\ o.data.t = "object"
    /\ o.data.subscription.t # "undefined"

\* The response the handler gives request r when the limiter answers as it
\* did for the current request and the provider call comes to outcome o.
ResponseTo(r, o) ==
    LET h0 == CorsHeaders(r, env)
        h1 == IF limited.kind = "result"
              THEN SetHeader(h0, "X-RateLimit-Remaining", <<limited.remaining>>)
              ELSE h0
        p == Pipeline(r, env)
        a == IF p.next = "fetch" THEN Translate(o) ELSE Answer(p.status, p.body)
    IN  [status |-> a.status, body |-> a.body, headers |-> h1]

\* The current response is, in status, body and headers, the response to
\* the same request without its honeypot field when the provider accepts.
SameAsGenuineAcceptance ==
    \A o \in ProviderOutcomes :
        Accepted(o) =>
            /\ Pipeline(WithoutHoneypot(req), env).next = "fetch"
            /\ [status |-> res.status, body |-> res.body, headers |-> res.headers]
               = ResponseTo(WithoutHoneypot(req), o)

\* C5 as claimed: of two requests that differ only in the honeypot field,
\* the one without it being accepted by the provider, the responses agree in
\* status, body and headers.  Fails on the code: the honeypot field counts
\* in the serialized size, so a long one is answered 413 at the size stage.
C5_HoneypotPairAgrees ==
    (pc = "done" /\ HasHoneypot(req) /\ PassesGuards(WithoutHoneypot(req)) /\ ~ConfigMissing)
        => SameAsGenuineAcceptance

\* C5 amended: the same, for a request that with its honeypot field is
\* within the size limit, that is, for every request the honeypot branch
\* answers.
C5_HoneypotIndistinguishable ==
    (pc = "done" /\ HasHoneypot(req) /\ ReachesHoneypotStage /\ ~ConfigMissing)
        => SameAsGenuineAcceptance

\* C5: a honeypot request has been answered, under a limiter that counted it.
C5_Witness ==
    /\ pc = "done"
    /\ HasHoneypot(req)
    /\ ReachesHoneypotStage
    /\ ~ConfigMissing
    /\ limited.kind = "result"
    /\ res.sent = 1

----------------------------------------------------------------------------
\* C6. An OPTIONS request is answered at once with an empty status-200
\* response and no further stage runs: whatever its origin, token, address
\* or body, it consumes no rate-limit quota and causes no provider call.
C6_PreflightOnly ==
    [][(req'.method = "OPTIONS" \/ req.method = "OPTIONS") =>
          /\ store' = store
          /\ passLog' = passLog
          /\ ratelimit' = ratelimit
          /\ calls' = <<>>
          /\ req'.method = "OPTIONS" =>
                /\ pc' = "done"
                /\ res'.sent = 1
                /\ Answer(res'.status, res'.body) = Answer(200, EmptyBody)
                /\ ran' = <<"preflight">>
                /\ limited' = NoLimit]_vars

\* C6: an OPTIONS request without token and with a malformed body has been
\* answered in production while its identifier was over the limit.
C6_Witness ==
    /\ pc = "done"
    /\ req.method = "OPTIONS"
    /\ Production
    /\ TokenPairRejected(req)
    /\ BodyMalformed(req)
    /\ Len(store[getClientIP(req)]) = 5
    /\ res.status = 200

----------------------------------------------------------------------------
\* The origins on the allow-list: the production domains, and the localhost
\* origins outside production.
OnAllowList(o) ==
    \/ o \in {<<"https://bluebeaconshow.com">>, <<"https://www.bluebeaconshow.com">>,
              <<"https://bluebeaconshow.vercel.app">>}
    \/ /\ ~Production
       /\ o \in {<<"http://localhost:3000">>, <<"http://localhost:5173">>,
                 <<"http://127.0.0.1:3000">>}

\* C7. The response carries Access-Control-Allow-Origin exactly when the
\* request's Origin is on the allow-list, and then with that origin as its
\* value; the localhost origins are on the list only outside production.
C7_CorsOrigin ==
    pc = "done" =>
        LET listed == req.origin.t = "string" /\ OnAllowList(req.origin.v)
        IN  /\ ("Access-Control-Allow-Origin" \in DOMAIN res.headers) <=> listed
            /\ listed => res.headers["Access-Control-Allow-Origin"] = req.origin.v

\* C7: a production response to a localhost origin has gone out without the
\* header.
C7_Witness ==
    /\ pc = "done"
    /\ Production
    /\ req.origin = Str(<<"http://localhost:3000">>)
    /\ "Access-Control-Allow-Origin" \notin DOMAIN res.headers

----------------------------------------------------------------------------
\* C8. Every request is answered exactly once, with status 200 and the
\* success shape or with a status among 400, 403, 405, 413, 429, 500 and an
\* error string.  Stated for the requests past the preflight, whose empty
\* answer the design sets apart.  Fails on the code: a body whose email is
\* not a string ends the handler in an uncaught TypeError at line 146.
C8_AlwaysOneResponse ==
    (Finished /\ req.method # "OPTIONS") =>
        /\ pc = "done"
        /\ res.sent = 1
        /\ \/ Answer(res.status, res.body) = Answer(200, SuccessBody)
           \/ /\ res.status \in {400, 403, 405, 413, 429, 500}
              /\ DOMAIN res.body = {"error"}

\* C8, the part the code keeps: no request is answered twice, and an answer
\* has one of the shapes above or is the empty answer to a preflight.
C8_AnswersWellFormed ==
    /\ res.sent <= 1
    /\ pc = "done" =>
          /\ res.sent = 1
          /\ \/ Answer(res.status, res.body) = Answer(200, SuccessBody)
             \/ req.method = "OPTIONS" /\ Answer(res.status, res.body) = Answer(200, EmptyBody)
             \/ /\ res.status \in {400, 403, 405, 413, 429, 500}
                /\ DOMAIN res.body = {"error"}

----------------------------------------------------------------------------
\* The call or the reading of its body failed: fetch rejected, the body was
\* not JSON, or an OK response decoded to no object at all.
Undecodable(o) ==
    \/ o.fetch = "rejects"
    \/ o.json = "rejects"
    \/ o.ok /\ o.data.t = "null"

\* C9. The response to a request that reached the provider depends on the
\* provider's outcome only through its kind: 200 with the success shape when
\* the provider accepts, the fixed 'service unavailable' answer when the call
\* or the decoding fails, one fixed failure message otherwise; nothing of the
\* provider's payload is in the response.
C9_GenericTranslation ==
    (pc = "done" /\ provider # NoOutcome) =>
        /\ res.sent = 1
        /\ Answer(res.status, res.body) =
              (IF Accepted(provider) THEN Answer(200, SuccessBody)
               ELSE IF Undecodable(provider) THEN Answer(500, Unavailable)
               ELSE Answer(400, SubscriptionFailed))
        /\ res.body \in {SuccessBody, Unavailable, SubscriptionFailed}

\* C9: a provider rejection that carries a payload has been answered.
C9_Witness ==
    /\ pc = "done"
    /\ provider # NoOutcome
    /\ provider.fetch = "resolves"
    /\ provider.json = "resolves"
    /\ ~provider.ok
    /\ provider.data.t = "object"
    /\ provider.data.detail = "provider-error-detail"
    /\ res.status = 400

----------------------------------------------------------------------------
\* The request passes every stage before the configuration check.
ReachesConfigStage == ReachesHoneypotStage /\ ~HasHoneypot(req)

\* C10. One request calls the provider at most once, a failed call is not
\* made again, and with the provider key or the form identifier missing no
\* call is made: the request is answered 500 'service unavailable'.
C10_SingleCall ==
    /\ Len(calls) <= 1
    /\ ConfigMissing => calls = <<>> /\ pc # "fetch"
    /\ (Finished /\ ReachesConfigStage /\ ConfigMissing) =>
          /\ pc = "done"
          /\ res.sent = 1
          /\ Answer(res.status, res.body) = Answer(500, Unavailable)
    /\ (pc = "done" /\ provider # NoOutcome) => Len(calls) = 1

\* C10: with the form identifier missing, a request that passed every guard
\* has been answered 500 without a provider call.
C10_Witness ==
    /\ pc = "done"
    /\ env.CONVERTKIT_API_KEY
    /\ ~env.CONVERTKIT_FORM_ID
    /\ ReachesConfigStage
    /\ res.status = 500
    /\ calls = <<>>

----------------------------------------------------------------------------
\* The 60-second window has elapsed since every logged request of id.
WindowElapsed(id) ==
    \A i \in 1..Len(store[id]) : now - store[id][i] >= 60

\* C11. A request whose rate-limit check completes once the 60-second window
\* has elapsed since its identifier's requests passes the rate-limit stage
\* again, with the whole quota before it, and such a request is answered
\* 200 with the success shape when the provider accepts it: an identifier
\* that was answered 429 is not locked out for good.
C11_WindowElapsed ==
    [][/\ (pc = "limit" /\ limited'.kind = "result" /\ WindowElapsed(getClientIP(req)))
          => /\ limited'.success
             /\ limited'.remaining = 4
             /\ res'.status # 429
             /\ ran'[Len(ran) + 1] = "parse"
             /\ Len(passLog'[getClientIP(req)]) = Len(passLog[getClientIP(req)]) + 1
       /\ (pc = "fetch" /\ pc' = "done" /\ limited.kind = "result" /\ Accepted(provider'))
          => /\ limited.success
             /\ res'.sent = 1
             /\ Answer(res'.status, res'.body) = Answer(200, SuccessBody)]_vars

\* C11: an identifier that was answered 429 has, a window later, passed the
\* rate-limit stage with the whole quota before it and been answered 200.
C11_Witness ==
    /\ pc = "done"
    /\ refused[getClientIP(req)]
    /\ now >= 60
    /\ limited.kind = "result"
    /\ limited.success
    /\ limited.remaining = 4
    /\ Accepted(provider)
    /\ res.status = 200

----------------------------------------------------------------------------
\* Two characters are one letter in either case.
SameLetter(x, y) ==
    \/ x = y
    \/ {x, y} \in {{"A", "a"}, {"B", "b"}, {"F", "f"}}

IsUpperCase(c) == c \in {"A", "B", "F"}

\* p is s without its surrounding whitespace and with its letters in lower
\* case.
NormalFormOf(p, s) ==
    /\ Len(p) <= Len(s)
    /\ \A k \in 1..Len(p) : ~IsUpperCase(p[k])
    /\ p # <<>> => p[1] # " " /\ p[Len(p)] # " "
    /\ \E i \in 1..(Len(s) - Len(p) + 1) :
          /\ \A k \in 1..Len(p) : SameLetter(p[k], s[i + k - 1])
          /\ \A k \in 1..Len(s) : (k < i \/ k >= i + Len(p)) => s[k] = " "

\* Request r with e as the email of its body.
WithEmail(r, e) ==
    IF r.body.t = "string"
    THEN [r EXCEPT !.body = JsonText([r.body.json.value EXCEPT !.email = e])]
    ELSE [r EXCEPT !.body.email = e]

\* C12. The email in the provider call, as the call is issued, is the
\* submitted email trimmed and in lower case; a submission whose email
\* differs from it only in letter case or surrounding whitespace is
\* normalized to the same value and, when its body is within the size
\* limit, leads to the same provider call; and the forwarded email,
\* submitted again, is forwarded unchanged.
C12_NormalizedPayload ==
    (pc = "fetch" /\ calls # <<>>) =>
        LET p == calls[1].email
        IN  /\ p.t = "string"
            /\ SentEmail(req).t = "string"
            /\ NormalFormOf(p.v, SentEmail(req).v)
            /\ \A e \in Emails :
                  (e.t = "string" /\ NormalFormOf(p.v, e.v)) =>
                      LET other == WithEmail(req, e)
                          q == Pipeline(other, env)
                      IN  /\ ExtractEmail(SentBody(other)).value = p
                          /\ q.next = "fetch" => ProviderCall(env, q.email) = calls[1]
                          /\ StringifyLength(SentBody(other)) <= MAX_BODY_SIZE =>
                                q.next = "fetch"
            /\ Pipeline(WithEmail(req, p), env).email = p

\* C12: an email in upper case between spaces has been forwarded trimmed and
\* in lower case.
C12_Witness ==
    /\ pc = "fetch"
    /\ calls # <<>>
    /\ SentEmail(req) = Str(<<" ", "F", "@", "B", ".", "c", " ">>)
    /\ calls[1].email = Str(<<"f", "@", "b", ".", "c">>)

----------------------------------------------------------------------------
\* The handler has entered the stage that looks at the email.
ReachedValidation == \E i \in 1..Len(ran) : ran[i] = "presence"

\* C14 as claimed: a POST that reaches the validation stage is answered 400
\* 'Email is required' when its email is missing (absent, empty, or empty
\* once trimmed) and 400 'Please provide a valid email address' when its
\* email is present but not a valid address, two different messages.  Fails
\* on the code: an email that is present but not a string ends the handler
\* in the uncaught TypeError of line 146 and is answered with no message.
C14_DistinctMessages ==
    (Finished /\ ReachedValidation) =>
        /\ EmailMissing(req) =>
              /\ pc = "done"
              /\ Answer(res.status, res.body) = Answer(400, EmailRequired)
        /\ (~EmailMissing(req) /\ ~EmailWellFormed(req)) =>
              /\ pc = "done"
              /\ Answer(res.status, res.body) = Answer(400, EmailInvalid)
        /\ EmailRequired # EmailInvalid

\* C14, the part the code keeps: the same, for an email that is missing or
\* is a string.
C14_DistinctMessagesForStrings ==
    (Finished /\ ReachedValidation /\ SentEmail(req).t \in {"undefined", "null", "string"}) =>
        /\ pc = "done"
        /\ EmailMissing(req) =>
              Answer(res.status, res.body) = Answer(400, EmailRequired)
        /\ (~EmailMissing(req) /\ ~EmailWellFormed(req)) =>
              Answer(res.status, res.body) = Answer(400, EmailInvalid)
        /\ EmailWellFormed(req) => res.body \notin {EmailRequired, EmailInvalid}

----------------------------------------------------------------------------
\* The rate-limit stage made no check: no limiter is configured, or the
\* check threw.
Unchecked == limited.kind \in {"unconfigured", "error"}

\* C18. The rate-limit stage fails open: with no limiter configured, or
\* when the check throws, the request is never answered 429 and goes on to
\* body parsing and through the later stages exactly as a request under the
\* limit does, to the same stages, the same answer and the same provider
\* call.
C18_FailOpen ==
    (Started /\ Unchecked) =>
        LET p == Pipeline(req, env)
        IN  /\ res.status # 429
            /\ res.body # TooManyRequests
            /\ "X-RateLimit-Remaining" \notin DOMAIN res.headers
            /\ ran = Prelude(req, env).ran \o p.ran
            /\ p.ran[1] = "parse"
            /\ email = p.email
            /\ pc = CASE p.next = "respond" -> "done"
                       [] p.next = "throw" -> "crashed"
                       [] p.next = "delay" -> IF res.sent = 0 THEN "delay" ELSE "done"
                       [] OTHER -> IF res.sent = 0 THEN "fetch" ELSE "done"
            /\ p.next = "respond" => Answer(res.status, res.body) = Answer(p.status, p.body)
            /\ calls = IF p.next = "fetch" THEN <<ProviderCall(env, p.email)>> ELSE <<>>

\* C18: a request whose check threw while its identifier had 5 requests in
\* the window has been accepted by the provider and answered 200.
C18_Witness ==
    /\ pc = "done"
    /\ limited.kind = "error"
    /\ Len(store[getClientIP(req)]) = 5
    /\ \A i \in 1..5 : now - store[getClientIP(req)][i] < 60
    /\ Accepted(provider)
    /\ res.status = 200

----------------------------------------------------------------------------
\* The handler has entered the size stage.
ReachedSize == \E i \in 1..Len(ran) : ran[i] = "size"

\* The request came without a body.
BodyAbsent(r) == r.body.t = "undefined"

\* The JSON serialization of the parsed body is longer than 1024.
Oversize(r) == ~BodyAbsent(r) /\ StringifyLength(SentBody(r)) > 1024

\* C19 as claimed: a POST that reaches the size stage is answered 413
\* exactly when the serialization of its parsed body is longer than 1024;
\* a body of 1024, and every body of at most 1024, an absent body included,
\* goes on to the validation stage.  Fails on the code: for an absent body
\* JSON.stringify gives undefined, reading its length throws, and the catch
\* of isBodyTooLarge takes the body for too large.
C19_SizeBoundary ==
    (Finished /\ ReachedSize) =>
        IF Oversize(req)
        THEN /\ pc = "done"
             /\ res.sent = 1
             /\ Answer(res.status, res.body) = Answer(413, TooLarge)
             /\ ~ReachedValidation
        ELSE /\ res.status # 413
             /\ ReachedValidation

\* C19, the part the code keeps: the same, for a request that has a body.
C19_SizeBoundaryWithBody ==
    (Finished /\ ReachedSize /\ ~BodyAbsent(req)) =>
        IF Oversize(req)
        THEN /\ pc = "done"
             /\ res.sent = 1
             /\ Answer(res.status, res.body) = Answer(413, TooLarge)
             /\ ~ReachedValidation
        ELSE /\ res.status # 413
             /\ ReachedValidation

\* C19, the boundary: bodies of exactly 1024 and of 1025 have been answered.
C19_AtBoundary ==
    /\ pc = "done"
    /\ ~BodyAbsent(req)
    /\ \/ StringifyLength(SentBody(req)) = 1024 /\ ReachedValidation
       \/ StringifyLength(SentBody(req)) = 1025 /\ res.status = 413

----------------------------------------------------------------------------
(***************************************************************************)
(* The form handler: the script of the page with the CSRF token            *)
(* (part_000) and assets/form.js, which is the same handler without the    *)
(* token.  The submit handler is cut at its await (fetch and               *)
(* response.json()); setTimeout callbacks are actions of their own.        *)
(***************************************************************************)

\* Bounds of the exploration of the page.

\* Submit events in one behaviour.
MaxSubmits == 2
\* Milliseconds one step of the page's clock advances.
TimeStep == 2500

\* new Uint8Array(32)
TOKEN_BYTES == 32
\* setTimeout(..., 3000) and setTimeout(hideMessage, 5000)
RESET_DELAY == 3000
HIDE_DELAY == 5000
\* data.error.length < 200
MAX_ERROR_LENGTH == 200

HexDigit(n) ==
    <<"0", "1", "2", "3", "4", "5", "6", "7", "8", "9", "a", "b", "c", "d", "e", "f">>[n + 1]

\* Number.prototype.toString(16) of a byte
ToString16(b) ==
    IF b < 16 THEN <<HexDigit(b)>> ELSE <<HexDigit(b \div 16), HexDigit(b % 16)>>

\* String.prototype.padStart(2, '0')
PadStart2(t) == IF Len(t) < 2 THEN <<"0">> \o t ELSE t

\* Array.prototype.join('')
RECURSIVE Join(_)
Join(parts) == IF parts = <<>> THEN <<>> ELSE Head(parts) \o Join(Tail(parts))

\* generateCSRFToken(), crypto.getRandomValues having filled `array`.
generateCSRFToken(array) ==
    Join([i \in 1..Len(array) |-> PadStart2(ToString16(array[i]))])

\* getCSRFToken(): the token it returns and the cookie it leaves, for the
\* cookie c found and the random bytes drawn.  The pattern csrf_token=([^;]+)
\* matches a cookie with a value of at least one character.
getCSRFToken(c, array) ==
    IF c.t = "string" /\ c.v # <<>>
    THEN [token |-> c, cookie |-> c]
    ELSE [token |-> Str(generateCSRFToken(array)), cookie |-> Str(generateCSRFToken(array))]

SUCCESS_TEXT == <<"Success! Thank you for subscribing to the Blue Beacon newsletter.">>
INVALID_TEXT == <<"Please enter a valid email address.">>
FAILED_TEXT == <<"Subscription failed. Please try again.">>
WRONG_TEXT == <<"Something went wrong. Please try again.">>

\* showMessage(type, text): messageDiv afterwards.
showMessage(type, text) ==
    [hidden |-> FALSE,
     color |-> IF type = "success" THEN "text-green-400" ELSE "text-red-400",
     icon |-> IF type = "success" THEN "fa-solid fa-check mr-2"
              ELSE "fa-solid fa-exclamation-circle mr-2",
     text |-> text]

\* hideMessage()
hideMessage(m) == [m EXCEPT !.hidden = TRUE]

\* setButtonsLoading(buttons, originalTexts): the buttons and the array
\* originalTexts afterwards.
setButtonsLoading(b) ==
    [buttons |-> [i \in DOMAIN b |->
                     [innerText |-> "PROCESSING...", disabled |-> TRUE, dimmed |-> TRUE]],
     originalTexts |-> [i \in DOMAIN b |-> b[i].innerText]]

\* resetButtons that leaves the buttons disabled.
resetButtons_KeepDisabled(b, originalTexts) ==
    [i \in DOMAIN b |->
        [innerText |-> originalTexts[i], disabled |-> b[i].disabled, dimmed |-> FALSE]]

\* resetButtons that gives every button the first label.
resetButtons_FirstLabel(b, originalTexts) ==
    [i \in DOMAIN b |->
        [innerText |-> originalTexts[1], disabled |-> FALSE, dimmed |-> FALSE]]

\* resetButtons(buttons, originalTexts)
resetButtons(b, originalTexts) ==
    [i \in DOMAIN b |->
        [innerText |-> originalTexts[i], disabled |-> FALSE, dimmed |-> FALSE]]

\* setButtonsSuccess(buttons)
setButtonsSuccess(b) == [i \in DOMAIN b |-> [b[i] EXCEPT !.innerText = "SUBSCRIBED"]]

\* The handler's emailRegex.test(s): /^[^\s@]+@[^\s@]+\.[^\s@]+$/
ClientEmailRegexTest(t) ==
    \E a \in 1..Len(t), d \in 1..Len(t) :
        /\ t[a] = "@"
        /\ t[d] = "."
        /\ 1 < a /\ a + 1 < d /\ d < Len(t)
        /\ \A i \in 1..Len(t) : ~IsSpace(t[i]) /\ (t[i] = "@" => i = a)

\* The validation that lets every email through.
ClientValidation_AcceptAll(d, m) ==
    [email |-> Trim(IF d # <<>> THEN d ELSE m), ok |-> TRUE]

\* The email the handler reads from the two inputs, and whether it
\* passes the handler's validation.
ClientValidation(d, m) ==
    LET e == Trim(IF d # <<>> THEN d ELSE m)
    IN  [email |-> e, ok |-> ~(e = <<>> \/ ~ClientEmailRegexTest(e))]

\* The handler from the submit event to its return or to the call of
\* fetch, on inputs d and m and buttons b: whether it shows the inline
\* error, whether it sends a request, and the buttons afterwards.
SubmitHandler(d, m, b) ==
    LET val == ClientValidation(d, m)
        loading == setButtonsLoading(b)
    IN  IF ~val.ok
        THEN [sends |-> FALSE, shows |-> TRUE,
              message |-> showMessage("error", INVALID_TEXT),
              email |-> val.email, buttons |-> b, originalTexts |-> <<>>]
        ELSE [sends |-> TRUE, shows |-> FALSE,
              message |-> showMessage("error", INVALID_TEXT),
              email |-> val.email, buttons |-> loading.buttons,
              originalTexts |-> loading.originalTexts]

\* replace(/[<>&"']/g, '')
StripHtml(t) == SelectSeq(t, LAMBDA c : c \notin {"<", ">", "&", "\"", "'"})

\* The request fetch sends: the POST of the handler with the cookie the
\* browser adds, as the endpoint receives it.
ClientRequest(v, ck, tok, e, w) ==
    [method |-> "POST",
     origin |-> Str(<<"https://bluebeaconshow.com">>),
     cookie |-> ck,
     csrfHeader |-> IF v = "part_000" THEN tok ELSE Undefined,
     realIp |-> Undefined,
     forwardedFor |-> Undefined,
     body |-> Obj(Str(e), Str(w), 0)]

\* What the handler does with what fetch and response.json() came to:
\* the success branch, or the catch with error.message.
HandleResponse(o) ==
    IF o.fetch = "rejects"
    THEN [branch |-> "catch", text |-> <<"Failed to fetch">>]
    ELSE IF o.json = "rejects"
    THEN [branch |-> "catch", text |-> <<"Unexpected end of JSON input">>]
    ELSE IF o.ok
    THEN [branch |-> "success", text |-> SUCCESS_TEXT]
    ELSE IF o.data.t = "null"
    THEN [branch |-> "catch", text |-> <<"Cannot read properties of null (reading 'error')">>]
    ELSE LET safeMessage ==
                 IF Truthy(o.data.error) /\ o.data.error.t = "string"
                    /\ Len(o.data.error.v) < MAX_ERROR_LENGTH
                 THEN StripHtml(o.data.error.v)
                 ELSE FAILED_TEXT
         IN  [branch |-> "catch",
              text |-> IF safeMessage # <<>> THEN safeMessage ELSE WRONG_TEXT]

----------------------------------------------------------------------------
\* The pages and responses explored.

\* What the user types into an input.
InputValues ==
    {<<>>, <<" ", "F", "@", "B", ".", "c", " ">>, <<"a", "@", "b">>}

\* The csrf_token cookie the browser holds when the page loads.
InitialCookies ==
    {Undefined, Str(<<>>), Str(Token("a", MIN_TOKEN_LENGTH - 1)),
     Str(generateCSRFToken(Token(171, TOKEN_BYTES)))}

\* What crypto.getRandomValues draws.
RandomArrays == {[i \in 1..TOKEN_BYTES |-> IF i % 2 = 1 THEN 7 ELSE 250]}

\* The labels of the desktop and the mobile button.
InitialButtons ==
    << [innerText |-> "SUBSCRIBE", disabled |-> FALSE, dimmed |-> FALSE],
       [innerText |-> "JOIN", disabled |-> FALSE, dimmed |-> FALSE] >>

\* The bodies a response decodes to.
ClientData ==
    {Null,
     [t |-> "object", error |-> Undefined],
     [t |-> "object", error |-> Str(<<"<", "Too many requests. Please try again later.", ">">>)],
     [t |-> "object", error |-> Str(<<"<", ">">>)],
     [t |-> "object", error |-> Str(Token("x", MAX_ERROR_LENGTH))]}

\* What the request can come to: rejected by the network, answered with a
\* body that is not JSON, answered with JSON.
ClientOutcomes ==
    {[fetch |-> "rejects", ok |-> FALSE, json |-> "rejects", data |-> Null]}
    \cup {[fetch |-> "resolves", ok |-> k, json |-> "rejects", data |-> Null] : k \in BOOLEAN}
    \cup {[fetch |-> "resolves", ok |-> TRUE, json |-> "resolves",
           data |-> [t |-> "object", error |-> Undefined]]}
    \cup {[fetch |-> "resolves", ok |-> FALSE, json |-> "resolves", data |-> d] :
             d \in ClientData}

\* The endpoint as deployed.
DeployedEnv ==
    [NODE_ENV |-> "production", UPSTASH_REDIS_REST_URL |-> TRUE,
     UPSTASH_REDIS_REST_TOKEN |-> TRUE, CONVERTKIT_API_KEY |-> TRUE,
     CONVERTKIT_FORM_ID |-> TRUE]

----------------------------------------------------------------------------
\* The page's state machine.

\* The endpoint is not looked at.
ServerIdle ==
    /\ env = DeployedEnv
    /\ ratelimit = "null"
    /\ store = EmptyStore
    /\ now = 0
    /\ pc = "idle"
    /\ req = NoRequest
    /\ res = FreshResponse
    /\ limited = NoLimit
    /\ email = Undefined
    /\ calls = <<>>
    /\ ran = <<>>
    /\ passLog = [id \in ClientIds |-> <<>>]
    /\ served = 0
    /\ errors = 0
    /\ provider = NoOutcome
    /\ refused = [id \in ClientIds |-> FALSE]

\* The page has loaded: the script has run to its end.  part_000 has read
\* or created the token (line 31); form.js has no token.
PageLoaded ==
    /\ variant \in {"part_000", "form.js"}
    /\ \E c \in InitialCookies, array \in RandomArrays :
          IF variant = "part_000"
          THEN /\ csrfToken = getCSRFToken(c, array).token
               /\ cookie = getCSRFToken(c, array).cookie
          ELSE /\ csrfToken = Undefined
               /\ cookie = c
    /\ desktopInput = <<>>
    /\ mobileInput = <<>>
    /\ website = <<>>
    /\ buttons = InitialButtons
    /\ message = [hidden |-> TRUE, color |-> "none", icon |-> "none", text |-> <<>>]
    /\ subs = <<>>
    /\ timers = {}
    /\ shownBy = 0
    /\ lastHide = [by |-> 0, of |-> 0]
    /\ overlapped = FALSE

ClientInit == PageLoaded /\ ServerIdle

\* The input listener of desktopInput: the mobile input follows.
InputDesktop(v) ==
    /\ Len(subs) < MaxSubmits
    /\ desktopInput # v
    /\ desktopInput' = v
    /\ mobileInput' = v
    /\ UNCHANGED <<variant, cookie, csrfToken, website, buttons, message, subs, timers,
                   shownBy, lastHide, overlapped>>
    /\ UNCHANGED serverVars

\* The input listener of mobileInput: the desktop input follows.
InputMobile(v) ==
    /\ Len(subs) < MaxSubmits
    /\ mobileInput # v
    /\ mobileInput' = v
    /\ desktopInput' = v
    /\ UNCHANGED <<variant, cookie, csrfToken, website, buttons, message, subs, timers,
                   shownBy, lastHide, overlapped>>
    /\ UNCHANGED serverVars

\* A submit event: the handler up to its return or to the await of fetch.
Submit ==
    /\ Len(subs) < MaxSubmits
    /\ LET id == Len(subs) + 1
           h == SubmitHandler(desktopInput, mobileInput, buttons)
       IN  /\ buttons' = h.buttons
           /\ message' = IF h.shows THEN h.message ELSE message
           /\ shownBy' = IF h.shows THEN id ELSE shownBy
           /\ subs' = Append(subs, [pc |-> IF h.sends THEN "fetch" ELSE "done",
                                    originalTexts |-> h.originalTexts,
                                    request |-> IF h.sends
                                                THEN ClientRequest(variant, cookie, csrfToken,
                                                                   h.email, website)
                                                ELSE NoRequest])
    /\ overlapped' = (overlapped \/ \E i \in DOMAIN buttons : buttons[i].disabled)
    /\ UNCHANGED <<variant, cookie, csrfToken, desktopInput, mobileInput, website, timers,
                   lastHide>>
    /\ UNCHANGED serverVars

\* fetch and response.json() of invocation i settle: the rest of the handler.
ResponseArrives(i, o) ==
    /\ i \in DOMAIN subs
    /\ subs[i].pc = "fetch"
    /\ subs' = [subs EXCEPT ![i].pc = "done"]
    /\ LET h == HandleResponse(o)
       IN  IF h.branch = "success"
           THEN /\ message' = showMessage("success", h.text)
                /\ desktopInput' = <<>>
                /\ mobileInput' = <<>>
                /\ buttons' = setButtonsSuccess(buttons)
                /\ timers' = timers \cup {[kind |-> "reset", left |-> RESET_DELAY, by |-> i]}
           ELSE /\ message' = showMessage("error", h.text)
                /\ buttons' = resetButtons(buttons, subs[i].originalTexts)
                /\ UNCHANGED <<desktopInput, mobileInput, timers>>
    /\ shownBy' = i
    /\ UNCHANGED <<variant, cookie, csrfToken, website, lastHide, overlapped>>
    /\ UNCHANGED serverVars

\* The first timer of invocation i fires: the buttons are reset and the
\* second timer is set.
ResetTimerFires(i) ==
    /\ \E t \in timers :
          /\ t.kind = "reset" /\ t.by = i /\ t.left <= 0
          /\ timers' = (timers \ {t}) \cup {[kind |-> "hide", left |-> HIDE_DELAY, by |-> i]}
    /\ buttons' = resetButtons(buttons, subs[i].originalTexts)
    /\ UNCHANGED <<variant, cookie, csrfToken, desktopInput, mobileInput, website, message,
                   subs, shownBy, lastHide, overlapped>>
    /\ UNCHANGED serverVars

\* The second timer of invocation i fires: hideMessage.
HideTimerFires(i) ==
    /\ \E t \in timers :
          /\ t.kind = "hide" /\ t.by = i /\ t.left <= 0
          /\ timers' = timers \ {t}
    /\ message' = hideMessage(message)
    /\ lastHide' = IF message.hidden THEN lastHide ELSE [by |-> i, of |-> shownBy]
    /\ UNCHANGED <<variant, cookie, csrfToken, desktopInput, mobileInput, website, buttons,
                   subs, shownBy, overlapped>>
    /\ UNCHANGED serverVars

\* Time passes, up to the moment the next timer is due.
TimePasses ==
    /\ timers # {}
    /\ \A t \in timers : t.left > 0
    /\ timers' = {[t EXCEPT !.left = @ - TimeStep] : t \in timers}
    /\ UNCHANGED <<variant, cookie, csrfToken, desktopInput, mobileInput, website, buttons,
                   message, subs, shownBy, lastHide, overlapped>>
    /\ UNCHANGED serverVars

ClientNext ==
    \/ \E v \in InputValues : InputDesktop(v)
    \/ \E v \in InputValues : InputMobile(v)
    \/ Submit
    \/ \E i \in 1..MaxSubmits : \E o \in ClientOutcomes : ResponseArrives(i, o)
    \/ \E i \in 1..MaxSubmits : ResetTimerFires(i)
    \/ \E i \in 1..MaxSubmits : HideTimerFires(i)
    \/ TimePasses

ClientSpec == ClientInit /\ [][ClientNext]_vars

\* The page under the browser's scheduling: a request settles, a timer that
\* is due fires, time does not stop.
ClientFair ==
    /\ ClientInit
    /\ [][ClientNext]_vars
    /\ WF_vars(\E i \in 1..MaxSubmits : \E o \in ClientOutcomes : ResponseArrives(i, o))
    /\ WF_vars(\E i \in 1..MaxSubmits : ResetTimerFires(i))
    /\ WF_vars(\E i \in 1..MaxSubmits : HideTimerFires(i))
    /\ WF_vars(TimePasses)

----------------------------------------------------------------------------
\* What the claims about the page speak of.

AnyButtonDisabled == \E i \in DOMAIN buttons : buttons[i].disabled
AllButtonsEnabled == \A i \in DOMAIN buttons : ~buttons[i].disabled

\* Invocation i has a request in flight.
InFlight(i) == subs[i].pc = "fetch"

\* Invocation i sent a request.
Sent(i) == subs[i].request # NoRequest

\* C15. After a submit event, whatever the request comes to (success, an
\* error status, a rejection by the network, a body that is not JSON), every
\* subscribe button becomes enabled again: whenever a button is disabled,
\* a state follows in which all buttons are enabled.
C15_ButtonsReenabled == AnyButtonDisabled ~> AllButtonsEnabled

\* C15: the buttons are enabled again after a response whose body was not
\* JSON.
C15_Witness ==
    /\ \E i \in DOMAIN subs : Sent(i) /\ subs[i].pc = "done"
    /\ message.text = <<"Unexpected end of JSON input">>
    /\ AllButtonsEnabled

----------------------------------------------------------------------------
\* Every submission has completed: no request is in flight and no restore
\* of the buttons is pending.
Quiescent ==
    /\ \A i \in DOMAIN subs : ~InFlight(i)
    /\ \A t \in timers : t.kind # "reset"

LabelsAsLoaded ==
    \A i \in DOMAIN buttons : buttons[i].innerText = InitialButtons[i].innerText

AllProcessing ==
    \A i \in DOMAIN buttons : buttons[i].disabled /\ buttons[i].innerText = "PROCESSING..."

\* C16 as claimed: for any number and interleaving of submit events, once
\* all submissions have completed every button has the label it had before
\* the first submission, and while a request is in flight all buttons are
\* disabled and labelled 'PROCESSING...' together.  Fails on the code: a
\* submit event that arrives while the buttons are disabled saves
\* 'PROCESSING...' or 'SUBSCRIBED' as the original labels, and the earlier
\* submission enables the buttons while the later request is in flight.
C16_LabelsRestored ==
    /\ Quiescent => LabelsAsLoaded
    /\ (\E i \in DOMAIN subs : InFlight(i)) => AllProcessing

\* C16 amended: the same, as long as no submit event has arrived while the
\* buttons were disabled by an earlier submission.
C16_LabelsRestoredWithoutOverlap ==
    ~overlapped =>
        /\ Quiescent => LabelsAsLoaded /\ AllButtonsEnabled
        /\ (\E i \in DOMAIN subs : InFlight(i)) => AllProcessing

\* C16: two submissions, one after the other, have sent their requests and
\* completed, and the buttons have their labels back.
C16_Witness ==
    /\ ~overlapped
    /\ Len(subs) = 2
    /\ Sent(1) /\ Sent(2)
    /\ Quiescent
    /\ LabelsAsLoaded

----------------------------------------------------------------------------
\* The request carries the token twice, as a header and as the cookie sent
\* with it, and the token has at least 32 characters.
CarriesToken(r) ==
    /\ r.csrfHeader.t = "string"
    /\ r.cookie.t = "string"
    /\ r.csrfHeader.v = r.cookie.v
    /\ Len(r.csrfHeader.v) >= 32

\* C17 as claimed: whatever csrf_token cookie the browser held when the page
\* loaded, every POST the form handler issues carries an X-CSRF-Token header
\* equal to the csrf_token cookie sent with it, of at least 32 characters,
\* and the endpoint in production mode does not answer it 403.  Fails on the
\* code: assets/form.js sends no such header, and the script with the token
\* takes over a cookie that is already there, however short.
C17_TokenAccepted ==
    \A i \in DOMAIN subs :
        Sent(i) =>
            /\ CarriesToken(subs[i].request)
            /\ Prelude(subs[i].request, env).next = "limit"

\* C17, the part the code keeps: the script with the token sends the cookie's
\* value as the header, and when it has created the token itself, or has
\* found one of at least 32 characters, the endpoint does not answer 403.
C17_TokenAcceptedWhenLongEnough ==
    \A i \in DOMAIN subs :
        (Sent(i) /\ variant = "part_000") =>
            /\ subs[i].request.csrfHeader = subs[i].request.cookie
            /\ subs[i].request.cookie = cookie
            /\ Len(cookie.v) \in {31, 64}
            /\ Len(cookie.v) = 64 =>
                  /\ CarriesToken(subs[i].request)
                  /\ Prelude(subs[i].request, env).next = "limit"

\* C17: the script with the token has sent a request with a token it
\* created, and assets/form.js has sent one without.
C17_SentWithCreatedToken ==
    /\ variant = "part_000"
    /\ Len(subs) >= 1
    /\ Sent(1)
    /\ \E array \in RandomArrays : cookie = Str(generateCSRFToken(array))
    /\ Len(cookie.v) = 2 * TOKEN_BYTES
    /\ CarriesToken(subs[1].request)

----------------------------------------------------------------------------
\* C20 as claimed: a visible message is hidden only by the hide timer of the
\* submission that showed it; the timer of an earlier successful submission
\* (buttons restored after 3000 ms, message hidden 5000 ms later) never
\* hides the message a later submission has shown.  Fails on the code: the
\* timer is not cancelled and hideMessage hides whatever messageDiv shows.
C20_HiddenByOwnTimer == lastHide.by = lastHide.of

\* C20, the part the code keeps: a message is hidden by no other means than
\* the hide timer of a submission that succeeded, and when every submit
\* event has arrived with the buttons enabled, by the timer of that
\* submission or of an earlier one.
C20_HiddenByATimer ==
    /\ message.hidden => (shownBy = 0 \/ lastHide.by # 0)
    /\ lastHide.by # 0 =>
          /\ lastHide.by \in DOMAIN subs
          /\ Sent(lastHide.by)
          /\ subs[lastHide.by].pc = "done"
          /\ ~overlapped => lastHide.of >= lastHide.by

\* C20: every submit event having arrived with the buttons enabled, the
\* message of the second submission has been hidden by the timer of the
\* first.
C20_HiddenByEarlierTimer ==
    /\ ~overlapped
    /\ lastHide.by = 1
    /\ lastHide.of = 2
    /\ message.hidden

----------------------------------------------------------------------------
\* One or more characters, none of them whitespace or "@".
Plain(x) == x # <<>> /\ \A i \in 1..Len(x) : x[i] \notin {" ", "@"}

\* s has the shape local@domain.tld.
HasShape(s) ==
    \E a \in 1..Len(s) :
        /\ s[a] = "@"
        /\ Plain(SubSeq(s, 1, a - 1))
        /\ \E d \in (a + 1)..Len(s) :
              /\ s[d] = "."
              /\ Plain(SubSeq(s, a + 1, d - 1))
              /\ Plain(SubSeq(s, d + 1, Len(s)))

\* The step in which the endpoint's handler reaches the stage that looks at
\* the email, and runs on from there.
ValidationStep ==
    /\ pc \in {"idle", "limit"}
    /\ pc' \notin {"idle", "limit"}
    /\ \E i \in 1..Len(ran') : ran'[i] = "presence"

\* The endpoint refuses in this step: it answers 400 and calls no provider.
ServerRejects ==
    /\ pc' = "done"
    /\ res'.sent = 1
    /\ res'.status = 400
    /\ calls' = calls

\* The form handler refuses s typed into its input: it shows the inline
\* error, sends no request and leaves the buttons alone.
ClientRejects(s) ==
    \A b \in {InitialButtons} :
        LET h == SubmitHandler(s, s, b)
        IN  /\ h.shows
            /\ ~h.message.hidden
            /\ h.message.text = INVALID_TEXT
            /\ ~h.sends
            /\ h.buttons = b

\* C13 as claimed: when the email a POST carries to the validation stage is
\* a string that does not have the shape local@domain.tld, the endpoint
\* answers 400 and calls no provider, and the form handler given the same
\* string shows the inline error and sends no request; the endpoint also
\* refuses a string longer than 254 characters.  Fails on the code: both
\* sides trim before they test, so " F@B.c " is accepted by both.
C13_BothReject ==
    [][(ValidationStep /\ SentEmail(req').t = "string") =>
          LET typed == SentEmail(req').v
          IN  /\ ~HasShape(typed) => (ServerRejects /\ ClientRejects(typed))
              /\ Len(typed) > 254 => ServerRejects]_vars

\* C13 amended: the same for the string without its surrounding whitespace.
\* When the trimmed string does not have the shape, both sides refuse; when
\* it is longer than 254 characters, the endpoint refuses.
C13_BothRejectTrimmed ==
    [][(ValidationStep /\ SentEmail(req').t = "string") =>
          LET typed == SentEmail(req').v
          IN  /\ ~HasShape(Trim(typed)) => (ServerRejects /\ ClientRejects(typed))
              /\ Len(Trim(typed)) > 254 => ServerRejects]_vars

\* C13: an address with whitespace inside it has been refused by the
\* endpoint at the validation stage, and is refused by the form handler.
C13_Witness ==
    /\ pc = "done"
    /\ ReachedValidation
    /\ SentEmail(req) = Str(<<"a", " ", "b", "@", "b", ".", "c">>)
    /\ Answer(res.status, res.body) = Answer(400, EmailInvalid)
    /\ ClientRejects(SentEmail(req).v)

\* C13: an address of 255 characters has been refused by the endpoint; the
\* form handler sends it.
C13_LongRefused ==
    /\ pc = "done"
    /\ ReachedValidation
    /\ SentEmail(req) = Str(LongEmail)
    /\ Answer(res.status, res.body) = Answer(400, EmailInvalid)
    /\ SubmitHandler(LongEmail, LongEmail, InitialButtons).sends

====
